---- MODULE Spec2Model ----
(***************************************************************************)
(* A model of zafnz/go-httptrack (src/httptrack.go).                       *)
(*                                                                         *)
(* httptrack.Handler resolves a list of rules (httptrack.Value) against an *)
(* inbound request, stores the resolved (location, name, value) triples in *)
(* the request's context and calls the wrapped handler.  AddContextData    *)
(* and NewRequestWithContext copy those triples onto outbound requests.    *)
(*                                                                         *)
(* An http.Request is modelled by the three containers the package reads   *)
(* and writes: the header map (name -> list of values), the cookies (the   *)
(* ordered list of name/value pairs of the Cookie line) and the URL, which *)
(* is nil or holds RawQuery (the ordered list of key/value pairs of the    *)
(* query string).  Names and values are well-formed tokens, so a value is  *)
(* valid as a header value, as a cookie value and as a query value.        *)
(***************************************************************************)
EXTENDS Integers, Sequences, FiniteSets, TLC

VARIABLES
    values,        \* the rule list given to Handler (its `values` parameter)
    received,      \* received[i]: the inbound request as ServeHTTP call i received it
    inbound,       \* inbound[i]: the inbound request *r of ServeHTTP call i (its header map, its URL)
    pc,            \* pc[i]: where ServeHTTP call i stands
    idx,           \* idx[i]: the position of the range loop over values
    ctxValues,     \* ctxValues[i]: the local slice ctxValues of call i
    ctx,           \* ctx[i]: what the context of call i holds under ctxDataName("httptrack")
    missingCalls,  \* missingCalls[i][k]: the results of rule k's MissingFunc, one per invocation
    served,        \* served[i]: how many times call i has invoked next.ServeHTTP
    outbound       \* the outbound calls made so far: call, context, request before and after, error

vars == <<values, received, inbound, pc, idx, ctxValues, ctx, missingCalls, served, outbound>>

-----------------------------------------------------------------------------
(* Bounds of the model *)

MaxRules == 2       \* longest rule list
MaxOutbound == 2    \* number of different outbound calls made

-----------------------------------------------------------------------------
(* Constants of the package *)

LocationHeader == 1
LocationCookie == 2
LocationQueryParam == 3

Locations == {LocationHeader, LocationCookie, LocationQueryParam}

\* The errors AddContextData can return.
ErrNil == "nil"
ErrMissingContext == "ErrMissingContext"
ErrNoURL == "request has no URL set"

\* context.Background(): a context Handler never touched.
Background == "Background"

\* ctx.Value(ctxDataName("httptrack")) of a context that holds no carrier.
NoData == [none |-> TRUE]

\* A nil *url.URL and a nil *http.Request.
NilURL == [nil |-> TRUE]
NilRequest == [nil |-> TRUE]

-----------------------------------------------------------------------------
(* Names, values, requests *)

\* Field names, in the byte order url.Values.Encode sorts keys by.
NameOrder == <<"a", "b">>
Names == {NameOrder[k] : k \in 1..Len(NameOrder)}

\* What a MissingFunc of the model may return (user code: any string).
MissingResults == {"", "g1", "g2"}

EmptyHeader == [n \in Names |-> <<>>]

Request(h, c, u) == [Header |-> h, Cookies |-> c, URL |-> u]
URLOf(q) == [RawQuery |-> q]
Pair(n, v) == [Name |-> n, Value |-> v]

\* A rule: httptrack.Value.  MissingFunc is "nil", "func" (a function that
\* returns a value) or "writes" (one that also writes to the request it gets).
Value(il, in, ol, on, mf) ==
    [InboundLocation |-> il, InboundName |-> in,
     OutboundLocation |-> ol, OutboundName |-> on, MissingFunc |-> mf]

\* A resolved triple: ctxValue.
ctxValue(l, n, v) == [location |-> l, name |-> n, value |-> v]

\* The carrier: ctxData.
ctxData(vs) == [values |-> vs]

-----------------------------------------------------------------------------
(* net/http and net/url operations the package calls *)

RECURSIVE SelectValues(_, _)
\* The values of the pairs named n, in the order of the list.
SelectValues(pairs, n) ==
    IF pairs = <<>> THEN <<>>
    ELSE LET rest == SelectValues(Tail(pairs), n)
         IN IF Head(pairs).Name = n THEN <<Head(pairs).Value>> \o rest ELSE rest

\* http.Header.Get: the first value of the name, "" when there is none.
HeaderGet(h, n) == IF h[n] = <<>> THEN "" ELSE h[n][1]

\* http.Header.Set: replace the name's values.
HeaderSet(h, n, v) == [h EXCEPT ![n] = <<v>>]

\* http.Header.Add: append a value to the name's list.
HeaderAdd(h, n, v) == [h EXCEPT ![n] = Append(@, v)]

\* (*http.Request).Cookie: the first cookie of that name, or http.ErrNoCookie.
Cookie(r, n) ==
    LET found == SelectValues(r.Cookies, n)
    IN IF found = <<>> THEN [err |-> "ErrNoCookie", Value |-> ""]
       ELSE [err |-> ErrNil, Value |-> found[1]]

\* (*http.Request).AddCookie: append a cookie to the Cookie line.
AddCookie(r, n, v) == [r EXCEPT !.Cookies = Append(@, Pair(n, v))]

\* (*url.URL).Query: parse RawQuery into url.Values (key -> list of values).
Query(u) == [n \in Names |-> SelectValues(u.RawQuery, n)]

\* url.Values.Get: the first value of the key, "" when there is none.
ValuesGet(q, n) == IF q[n] = <<>> THEN "" ELSE q[n][1]

\* url.Values.Set: replace the key's values.
ValuesSet(q, n, v) == [q EXCEPT ![n] = <<v>>]

\* url.Values.Add: append a value to the key's list.
ValuesAdd(q, n, v) == [q EXCEPT ![n] = Append(@, v)]

RECURSIVE PairsOf(_, _)
\* The pairs key=v for the values vs of one key.
PairsOf(n, vs) ==
    IF vs = <<>> THEN <<>> ELSE <<Pair(n, Head(vs))>> \o PairsOf(n, Tail(vs))

RECURSIVE EncodeFrom(_, _)
EncodeFrom(q, k) ==
    IF k > Len(NameOrder) THEN <<>>
    ELSE PairsOf(NameOrder[k], q[NameOrder[k]]) \o EncodeFrom(q, k + 1)

\* url.Values.Encode: the query string, keys sorted, each key's values in order.
Encode(q) == EncodeFrom(q, 1)

-----------------------------------------------------------------------------
(* httptrack.Handler *)

\* The switch on v.InboundLocation: outboundValue after reading the inbound
\* request r for rule v ("" when the field is absent or empty).
InboundValue(r, v) ==
    CASE v.InboundLocation = LocationHeader ->
           HeaderGet(r.Header, v.InboundName)
      [] v.InboundLocation = LocationCookie ->
           LET cookie == Cookie(r, v.InboundName)
           IN IF cookie.err = ErrNil /\ cookie.Value # "" THEN cookie.Value ELSE ""
      [] v.InboundLocation = LocationQueryParam ->
           IF r.URL # NilURL THEN ValuesGet(Query(r.URL), v.InboundName) ELSE ""
      [] OTHER -> ""

\* A Handler that calls the MissingFunc whatever the inbound request holds.
CallsMissingFuncAlways(outboundValue, v) ==
    v.MissingFunc # "nil"

\* "If value is missing and there is a missing func, then call it".
CallsMissingFunc(outboundValue, v) ==
    outboundValue = "" /\ v.MissingFunc # "nil"

\* A Handler that stores the triple under the rule's inbound location and name.
AppendCtxValueInbound(cv, v, outboundValue) ==
    IF outboundValue # ""
    THEN Append(cv, ctxValue(v.InboundLocation, v.InboundName, outboundValue))
    ELSE cv

\* A Handler that stores a triple for an empty value too.
AppendCtxValueAlways(cv, v, outboundValue) ==
    Append(cv, ctxValue(v.OutboundLocation, v.OutboundName, outboundValue))

\* The append that ends the loop body: a triple for a non-empty value.
AppendCtxValue(cv, v, outboundValue) ==
    IF outboundValue # ""
    THEN Append(cv, ctxValue(v.OutboundLocation, v.OutboundName, outboundValue))
    ELSE cv

\* The loop variable after one iteration of the range loop.
NextIndex(k) == k + 1

\* v.MissingFunc(v.OutboundName, *r): the function is given a copy of the
\* http.Request struct, whose Header field is the header map of the inbound
\* request and whose URL field points to its URL.  What the request the
\* loop reads can be when the function returns: as it was for a function
\* that only reads ("func"); with the header "a" set or deleted for one that
\* writes to the map it was given ("writes").
MissingFuncLeaves(v, r) ==
    IF v.MissingFunc = "writes"
    THEN { [r EXCEPT !.Header["a"] = <<"m">>], [r EXCEPT !.Header["a"] = <<>>] }
    ELSE {r}

\* A Handler that calls the MissingFunc once to see whether it has a value
\* and once more to get it.
HandlerRangeCallsTwice(i) ==
    /\ pc[i] = "range"
    /\ idx[i] <= Len(values)
    /\ LET v == values[idx[i]]
           read == InboundValue(inbound[i], v)
       IN IF CallsMissingFunc(read, v)
          THEN \E probe \in MissingResults, res \in MissingResults :
               \E after \in MissingFuncLeaves(v, inbound[i]) :
                 /\ missingCalls' = [missingCalls EXCEPT ![i][idx[i]] = @ \o <<probe, res>>]
                 /\ inbound' = [inbound EXCEPT ![i] = after]
                 /\ ctxValues' = [ctxValues EXCEPT ![i] = AppendCtxValue(@, v, res)]
          ELSE /\ missingCalls' = missingCalls
               /\ inbound' = inbound
               /\ ctxValues' = [ctxValues EXCEPT ![i] = AppendCtxValue(@, v, read)]
    /\ idx' = [idx EXCEPT ![i] = NextIndex(@)]
    /\ UNCHANGED <<values, received, pc, ctx, served, outbound>>

\* One iteration of `for _, v := range values` in ServeHTTP call i: read the
\* inbound field, call the MissingFunc when the value is missing (it returns
\* res), append the triple.
HandlerRange(i) ==
    /\ pc[i] = "range"
    /\ idx[i] <= Len(values)
    /\ LET v == values[idx[i]]
           read == InboundValue(inbound[i], v)
       IN IF CallsMissingFunc(read, v)
          THEN \E res \in MissingResults :
               \E after \in MissingFuncLeaves(v, inbound[i]) :
                 /\ missingCalls' = [missingCalls EXCEPT ![i][idx[i]] = Append(@, res)]
                 /\ inbound' = [inbound EXCEPT ![i] = after]
                 /\ ctxValues' = [ctxValues EXCEPT ![i] = AppendCtxValue(@, v, res)]
          ELSE /\ missingCalls' = missingCalls
               /\ inbound' = inbound
               /\ ctxValues' = [ctxValues EXCEPT ![i] = AppendCtxValue(@, v, read)]
    /\ idx' = [idx EXCEPT ![i] = NextIndex(@)]
    /\ UNCHANGED <<values, received, pc, ctx, served, outbound>>

\* A Handler that attaches no carrier when no rule produced a triple.
WithValueSkipsEmpty(cv) == IF cv = <<>> THEN NoData ELSE ctxData(cv)

\* What r.WithContext(context.WithValue(...)) stores in the context.
WithValue(cv) == ctxData(cv)

\* A Handler that calls next.ServeHTTP(w, r) without waiting for the end of
\* the loop.
HandlerServeEarly(i) ==
    /\ pc[i] = "range"
    /\ ctx' = [ctx EXCEPT ![i] = WithValue(ctxValues[i])]
    /\ served' = [served EXCEPT ![i] = @ + 1]
    /\ pc' = [pc EXCEPT ![i] = "serving"]
    /\ UNCHANGED <<values, received, inbound, idx, ctxValues, missingCalls, outbound>>

\* The loop is over: attach the carrier and call next.ServeHTTP(w, r).
HandlerServe(i) ==
    /\ pc[i] = "range"
    /\ idx[i] > Len(values)
    /\ ctx' = [ctx EXCEPT ![i] = WithValue(ctxValues[i])]
    /\ served' = [served EXCEPT ![i] = @ + 1]
    /\ pc' = [pc EXCEPT ![i] = "serving"]
    /\ UNCHANGED <<values, received, inbound, idx, ctxValues, missingCalls, outbound>>

\* next.ServeHTTP returns, and so does the middleware.
HandlerReturn(i) ==
    /\ pc[i] = "serving"
    /\ pc' = [pc EXCEPT ![i] = "done"]
    /\ UNCHANGED <<values, received, inbound, idx, ctxValues, ctx, missingCalls, served, outbound>>

-----------------------------------------------------------------------------
(* httptrack.AddContextData and httptrack.NewRequestWithContext *)

\* A package that keeps the carrier in one package-level variable that every
\* ServeHTTP call writes, instead of in the context of the request.
ContextValueShared(c) ==
    IF c = Background \/ \A i \in DOMAIN ctx : ctx[i] = NoData THEN NoData
    ELSE ctx[CHOOSE i \in DOMAIN ctx :
                 ctx[i] # NoData /\ (i # c \/ \A j \in DOMAIN ctx \ {c} : ctx[j] = NoData)]

\* req.Context().Value(ctxDataName("httptrack")) for a request whose context
\* is c: the carrier of the ServeHTTP call the context comes from, if any.
ContextValue(c) == IF c = Background THEN NoData ELSE ctx[c]

\* An AddContextData that passes over a query parameter when the request
\* has no URL.
ApplyValueSkipsNoURL(req, v) ==
    CASE v.location = LocationHeader ->
           [req |-> [req EXCEPT !.Header = HeaderAdd(@, v.name, v.value)], err |-> ErrNil]
      [] v.location = LocationCookie ->
           [req |-> AddCookie(req, v.name, v.value), err |-> ErrNil]
      [] v.location = LocationQueryParam ->
           IF req.URL = NilURL
           THEN [req |-> req, err |-> ErrNil]
           ELSE LET q == ValuesAdd(Query(req.URL), v.name, v.value)
                IN [req |-> [req EXCEPT !.URL.RawQuery = Encode(q)], err |-> ErrNil]
      [] OTHER -> [req |-> req, err |-> ErrNil]

\* The body of the switch on v.location: write one triple to req.
\* The result is the request and the error the case returns.
ApplyValue(req, v) ==
    CASE v.location = LocationHeader ->
           [req |-> [req EXCEPT !.Header = HeaderAdd(@, v.name, v.value)], err |-> ErrNil]
      [] v.location = LocationCookie ->
           [req |-> AddCookie(req, v.name, v.value), err |-> ErrNil]
      [] v.location = LocationQueryParam ->
           IF req.URL = NilURL
           THEN [req |-> req, err |-> ErrNoURL]
           ELSE LET q == ValuesAdd(Query(req.URL), v.name, v.value)
                IN [req |-> [req EXCEPT !.URL.RawQuery = Encode(q)], err |-> ErrNil]
      [] OTHER -> [req |-> req, err |-> ErrNil]

RECURSIVE ApplyValues(_, _)
\* `for _, v := range data.values`: write the triples in order, stopping at
\* the first error.
ApplyValues(req, vs) ==
    IF vs = <<>> THEN [req |-> req, err |-> ErrNil]
    ELSE LET one == ApplyValue(req, Head(vs))
         IN IF one.err # ErrNil THEN one ELSE ApplyValues(one.req, Tail(vs))

\* An AddContextData that takes a context without carrier for an empty carrier.
AddContextDataOnNoCheck(req, data) ==
    IF data = NoData
    THEN [req |-> req, err |-> ErrNil]
    ELSE ApplyValues(req, data.values)

\* AddContextData(req) for a request whose context value is data: the
\* request as the call leaves it, and the error returned.
AddContextDataOn(req, data) ==
    IF data = NoData
    THEN [req |-> req, err |-> ErrMissingContext]
    ELSE ApplyValues(req, data.values)

\* http.NewRequestWithContext(ctx, method, url, body): a request with no
\* header and no cookie whose URL holds the query of url, or an error when
\* url does not parse.
HttpNewRequest(url) ==
    IF ~url.valid
    THEN [req |-> NilRequest, err |-> "parse error"]
    ELSE [req |-> Request(EmptyHeader, <<>>, URLOf(url.query)), err |-> ErrNil]

\* A NewRequestWithContext that returns every error of AddContextData.
NewRequestWithContextOnStrict(url, data) ==
    LET new == HttpNewRequest(url)
    IN IF new.err # ErrNil THEN [req |-> NilRequest, err |-> new.err]
       ELSE LET add == AddContextDataOn(new.req, data)
            IN IF add.err # ErrNil
               THEN [req |-> NilRequest, err |-> add.err]
               ELSE [req |-> add.req, err |-> ErrNil]

\* NewRequestWithContext(ctx, method, url, body) when the context value is
\* data: the request and the error returned.
NewRequestWithContextOn(url, data) ==
    LET new == HttpNewRequest(url)
    IN IF new.err # ErrNil THEN [req |-> NilRequest, err |-> new.err]
       ELSE LET add == AddContextDataOn(new.req, data)
            IN IF add.err # ErrNil /\ add.err # ErrMissingContext
               THEN [req |-> NilRequest, err |-> add.err]
               ELSE [req |-> add.req, err |-> ErrNil]

\* The contexts the wrapped handler of ServeHTTP call i can build a request
\* with: its own r.Context(), or context.Background() when it lost it.
Contexts(i) == {i, Background}

\* The urls given to NewRequestWithContext: one with a query, one that does
\* not parse.
OutboundURLs ==
    { [valid |-> TRUE, query |-> <<Pair("b", "p"), Pair("a", "p")>>],
      [valid |-> FALSE, query |-> <<>>] }

\* The requests given to AddContextData: one that has a header, a cookie
\* and a query already, and one without URL.
OutboundRequests ==
    { Request([EmptyHeader EXCEPT !["a"] = <<"p">>], <<Pair("a", "p")>>,
              URLOf(<<Pair("b", "p"), Pair("a", "p")>>)),
      Request([EmptyHeader EXCEPT !["b"] = <<"p">>], <<Pair("b", "p")>>, NilURL) }

\* The wrapped handler of call i calls NewRequestWithContext(c, "GET", url, nil).
NewRequestWithContext(i, c, url) ==
    /\ pc[i] = "serving"
    /\ Cardinality(outbound) < MaxOutbound
    /\ LET res == NewRequestWithContextOn(url, ContextValue(c))
       IN outbound' = outbound \cup
              {[call |-> "NewRequestWithContext", ctx |-> c,
                before |-> HttpNewRequest(url).req, req |-> res.req, err |-> res.err]}
    /\ UNCHANGED <<values, received, inbound, pc, idx, ctxValues, ctx, missingCalls, served>>

\* An AddContextData that takes the triples out of the carrier as it writes them.
AddContextDataDrains(i, c, req) ==
    /\ pc[i] = "serving"
    /\ Cardinality(outbound) < MaxOutbound
    /\ LET res == AddContextDataOn(req, ContextValue(c))
       IN outbound' = outbound \cup
              {[call |-> "AddContextData", ctx |-> c,
                before |-> req, req |-> res.req, err |-> res.err]}
    /\ ctx' = IF c = Background THEN ctx ELSE [ctx EXCEPT ![c] = ctxData(<<>>)]
    /\ UNCHANGED <<values, received, inbound, pc, idx, ctxValues, missingCalls, served>>

\* The wrapped handler of call i calls AddContextData(req) on a request req
\* it built with context c.
AddContextData(i, c, req) ==
    /\ pc[i] = "serving"
    /\ Cardinality(outbound) < MaxOutbound
    /\ LET res == AddContextDataOn(req, ContextValue(c))
       IN outbound' = outbound \cup
              {[call |-> "AddContextData", ctx |-> c,
                before |-> req, req |-> res.req, err |-> res.err]}
    /\ UNCHANGED <<values, received, inbound, pc, idx, ctxValues, ctx, missingCalls, served>>

-----------------------------------------------------------------------------
(* The rule lists and inbound requests of the model *)

\* The rules: every pair of locations, read under the name "a", written
\* under either name, with and without a MissingFunc.
Rules ==
    { Value(il, "a", ol, on, mf) :
        il \in Locations, ol \in Locations, on \in Names, mf \in {"nil", "func"} }

\* The rules a list may continue with.
TailRules ==
    { Value(LocationHeader, "a", LocationHeader, "b", "nil"),
      Value(LocationCookie, "a", LocationQueryParam, "b", "func") }

RECURSIVE ListsOf(_)
\* The rule lists of length n: any rule first, then rules of TailRules.
ListsOf(n) ==
    IF n = 0 THEN {<<>>}
    ELSE IF n = 1 THEN {<<r>> : r \in Rules}
    ELSE {Append(l, r) : l \in ListsOf(n - 1), r \in TailRules}

RuleLists == UNION {ListsOf(n) : n \in 0..MaxRules}

\* The inbound requests: every field present (with other fields around it),
\* nothing at all, every field empty, and an empty header with a cookie
\* that has a value and a query without the parameter.
InboundRequests ==
    { Request([a |-> <<"h", "h2">>, b |-> <<"x">>],
              <<Pair("b", "x"), Pair("a", "c"), Pair("a", "c2")>>,
              URLOf(<<Pair("b", "x"), Pair("a", "q")>>)),
      Request(EmptyHeader, <<>>, NilURL),
      Request([a |-> <<"">>, b |-> <<"x">>], <<Pair("a", ""), Pair("b", "x")>>,
              URLOf(<<Pair("a", ""), Pair("b", "x")>>)),
      Request([a |-> <<"">>, b |-> <<>>], <<Pair("a", "c")>>, URLOf(<<Pair("b", "x")>>)) }

-----------------------------------------------------------------------------
(* The specification *)

\* ServeHTTP calls ids are in flight on a Handler built with one of lists.
InitOf(ids, lists) ==
    /\ values \in lists
    /\ inbound \in [ids -> InboundRequests]
    /\ received = inbound
    /\ pc = [i \in ids |-> "range"]
    /\ idx = [i \in ids |-> 1]
    /\ ctxValues = [i \in ids |-> <<>>]
    /\ ctx = [i \in ids |-> NoData]
    /\ missingCalls = [i \in ids |-> [k \in 1..Len(values) |-> <<>>]]
    /\ served = [i \in ids |-> 0]
    /\ outbound = {}

Init == InitOf({"r1"}, RuleLists)

Next ==
    \/ \E i \in DOMAIN pc : HandlerRange(i)
    \/ \E i \in DOMAIN pc : HandlerServe(i)
    \/ \E i \in DOMAIN pc : HandlerReturn(i)
    \/ \E i \in DOMAIN pc : \E c \in Contexts(i), url \in OutboundURLs :
          NewRequestWithContext(i, c, url)
    \/ \E i \in DOMAIN pc : \E c \in Contexts(i), req \in OutboundRequests :
          AddContextData(i, c, req)

Spec == Init /\ [][Next]_vars

\* The rule lists of the concurrent specification: a rule that reads a
\* header and a rule with a MissingFunc, alternating.
ConcRuleLists ==
    {l \in RuleLists :
        /\ l # <<>>
        /\ \A k \in 1..Len(l) : l[k] \in TailRules
        /\ \A k \in 1..(Len(l) - 1) : l[k] # l[k + 1]}

\* The inbound requests of the concurrent specification: one that has every
\* field and one that has none.
ConcInboundRequests ==
    {r \in InboundRequests : r.URL = NilURL \/ r.Header["a"] = <<"h", "h2">>}

\* Two ServeHTTP calls of the same Handler run concurrently: the server
\* runs each inbound request in its own goroutine, so their steps interleave.
InitConc ==
    /\ values \in ConcRuleLists
    /\ inbound \in [{"r1", "r2"} -> ConcInboundRequests]
    /\ received = inbound
    /\ pc = [i \in {"r1", "r2"} |-> "range"]
    /\ idx = [i \in {"r1", "r2"} |-> 1]
    /\ ctxValues = [i \in {"r1", "r2"} |-> <<>>]
    /\ ctx = [i \in {"r1", "r2"} |-> NoData]
    /\ missingCalls = [i \in {"r1", "r2"} |-> [k \in 1..Len(values) |-> <<>>]]
    /\ served = [i \in {"r1", "r2"} |-> 0]
    /\ outbound = {}

SpecConc == InitConc /\ [][Next]_vars

\* The rules whose MissingFunc writes to the request it is given.
WritingRules ==
    { Value(il, "a", LocationCookie, "b", "writes") : il \in Locations }

RECURSIVE TailLists(_)
\* The lists of n rules of TailRules.
TailLists(n) ==
    IF n = 0 THEN {<<>>}
    ELSE {Append(l, r) : l \in TailLists(n - 1), r \in TailRules}

\* The rule lists that start with a rule of WritingRules.
WritingRuleLists ==
    {<<w>> \o t : w \in WritingRules, t \in UNION {TailLists(n) : n \in 0..(MaxRules - 1)}}

\* A Handler whose first rule has a MissingFunc that writes to its request.
InitWrites == InitOf({"r1"}, WritingRuleLists)

SpecWrites == InitWrites /\ [][Next]_vars

-----------------------------------------------------------------------------
(* What the properties observe *)

\* The values a request holds under (location l, name n), in order.
FieldValues(req, l, n) ==
    CASE l = LocationHeader -> req.Header[n]
      [] l = LocationCookie -> SelectValues(req.Cookies, n)
      [] l = LocationQueryParam ->
           IF req.URL = NilURL THEN <<>> ELSE SelectValues(req.URL.RawQuery, n)

\* The value an inbound request has at (l, n): the first one, "" when absent.
FieldValue(req, l, n) ==
    IF FieldValues(req, l, n) = <<>> THEN "" ELSE FieldValues(req, l, n)[1]

\* s is the beginning of t.
IsPrefix(s, t) == Len(s) <= Len(t) /\ SubSeq(t, 1, Len(s)) = s

\* The values call o added under (l, n), given that it kept the old ones.
Written(o, l, n) ==
    SubSeq(FieldValues(o.req, l, n),
           Len(FieldValues(o.before, l, n)) + 1, Len(FieldValues(o.req, l, n)))

\* The outbound calls made with the context of ServeHTTP call i that
\* returned a request and no error.
Built(i) == {o \in outbound : o.ctx = i /\ o.err = ErrNil /\ o.req # NilRequest}

Calls == DOMAIN pc
RuleIndexes == 1..Len(values)

\* Rule k of ServeHTTP call i has been resolved.
Resolved(i, k) == idx[i] > k

-----------------------------------------------------------------------------
(* C1 *)

\* C1: for one inbound request, each rule's MissingFunc is invoked at most
\* once, however many outbound requests are built from the handler's context
\* with NewRequestWithContext or AddContextData, and every one of those
\* requests (the calls that return a request and no error) carries the value
\* the single invocation returned at the rule's outbound location and name.
C1_MissingFuncOnce ==
    \A i \in Calls : \A k \in RuleIndexes :
        /\ Len(missingCalls[i][k]) <= 1
        /\ (missingCalls[i][k] # <<>> /\ missingCalls[i][k][1] # "") =>
             \A o \in Built(i) :
                 LET out == Written(o, values[k].OutboundLocation, values[k].OutboundName)
                 IN \E n \in 1..Len(out) : out[n] = missingCalls[i][k][1]

\* A MissingFunc returned a value and two outbound requests were built from
\* that handler's context.
C1_Witness ==
    \E i \in Calls : \E k \in RuleIndexes :
        /\ missingCalls[i][k] # <<>>
        /\ missingCalls[i][k][1] # ""
        /\ Cardinality(Built(i)) >= 2

-----------------------------------------------------------------------------
(* C2 *)

\* C2: the carrier Handler stored in the context is never changed after it
\* is created: no step changes it, whatever AddContextData and
\* NewRequestWithContext calls are made on requests sharing the context, so
\* two such calls given the same request, the first and the k-th, leave it
\* with the same fields.
C2_CarrierNeverChanges ==
    [][\A i \in Calls :
          ctx[i] # NoData =>
             /\ ctx'[i] = ctx[i]
             /\ \A o1, o2 \in outbound' :
                    (o1.ctx = i /\ o2.ctx = i /\ o1.call = o2.call
                        /\ o1.before = o2.before) => o1 = o2]_vars

\* Two outbound calls were made on requests that share a context whose
\* carrier holds a triple.
C2_Witness ==
    \E i \in Calls :
        /\ ctx[i] # NoData
        /\ ctx[i].values # <<>>
        /\ Cardinality({o \in outbound : o.ctx = i}) >= 2
        /\ \E o \in outbound : o.ctx = i /\ o.call = "AddContextData" /\ o.req # o.before

-----------------------------------------------------------------------------
(* C3 *)

\* The rules of call i that target (l, n) and whose triple is in the carrier.
TargetedBy(i, l, n) ==
    {t \in 1..Len(ctx[i].values) :
        ctx[i].values[t].location = l /\ ctx[i].values[t].name = n}

\* C3: for every rule whose inbound value is present and non-empty, an
\* outbound request built with NewRequestWithContext inside the wrapped
\* handler carries that value at the rule's outbound location and name,
\* whatever the two locations are; and the request gets nothing under a
\* location and name that is not the outbound pair of a resolved triple.
C3_OutboundPairOnly ==
    \A i \in Calls :
        \A o \in {b \in Built(i) : b.call = "NewRequestWithContext"} :
            /\ \A k \in RuleIndexes :
                 LET v == values[k]
                     val == FieldValue(inbound[i], v.InboundLocation, v.InboundName)
                     out == Written(o, v.OutboundLocation, v.OutboundName)
                 IN val # "" => \E n \in 1..Len(out) : out[n] = val
            /\ \A l \in Locations : \A n \in Names :
                 TargetedBy(i, l, n) = {} =>
                     FieldValues(o.req, l, n) = FieldValues(o.before, l, n)

\* A Cookie-to-Header rule with distinct names met its cookie, and the
\* request NewRequestWithContext built has the header and no cookie.
C3_Witness ==
    \E i \in Calls :
        /\ values = <<Value(LocationCookie, "a", LocationHeader, "b", "nil")>>
        /\ FieldValue(inbound[i], LocationCookie, "a") = "c"
        /\ \E o \in Built(i) :
             /\ o.call = "NewRequestWithContext"
             /\ o.req.Header["b"] = <<"c">>
             /\ o.req.Cookies = <<>>

-----------------------------------------------------------------------------
(* C4 *)

\* C4: AddContextData on a request whose context holds no carrier returns
\* ErrMissingContext and leaves the request's headers, cookies and query
\* string unchanged.
C4_MissingContext ==
    \A o \in outbound :
        (o.call = "AddContextData" /\ ContextValue(o.ctx) = NoData) =>
            /\ o.err = ErrMissingContext
            /\ o.req = o.before

\* AddContextData was called on a request that has fields and whose context
\* is context.Background().
C4_Witness ==
    \E o \in outbound :
        /\ o.call = "AddContextData"
        /\ o.ctx = Background
        /\ o.before.Cookies # <<>>

-----------------------------------------------------------------------------
(* C5 *)

\* C5: NewRequestWithContext with a context never derived from Handler (and
\* a url that parses) returns a request and no error, and the request has no
\* field added; NewRequestWithContext never returns ErrMissingContext, and
\* whenever it returns an error the request it returns is nil.
C5_LostContextSwallowed ==
    \A o \in outbound :
        o.call = "NewRequestWithContext" =>
            /\ (ContextValue(o.ctx) = NoData /\ o.before # NilRequest) =>
                  (o.err = ErrNil /\ o.req = o.before /\ o.req # NilRequest)
            /\ o.err # ErrMissingContext
            /\ o.err # ErrNil => o.req = NilRequest

\* NewRequestWithContext was called with context.Background() and a url
\* that has a query.
C5_Witness ==
    \E o \in outbound :
        /\ o.call = "NewRequestWithContext"
        /\ o.ctx = Background
        /\ o.req # NilRequest
        /\ o.req.URL.RawQuery # <<>>

-----------------------------------------------------------------------------
(* C6 *)

\* The value rule k of call i resolves to, from what the inbound request
\* holds and what the rule's MissingFunc returned.
ResolvedValue(i, k) ==
    LET val == FieldValue(inbound[i], values[k].InboundLocation, values[k].InboundName)
    IN IF val # "" THEN val
       ELSE IF missingCalls[i][k] # <<>> THEN missingCalls[i][k][1]
       ELSE ""

\* C6: when the inbound request went through Handler and no rule produced a
\* triple (no rule, or every rule resolved to the empty value), the context
\* of the wrapped handler still holds a carrier, and AddContextData on a
\* request built from that context returns nil and leaves it unchanged.
C6_EmptyCarrier ==
    \A i \in Calls :
        (pc[i] \in {"serving", "done"} /\ \A k \in RuleIndexes : ResolvedValue(i, k) = "") =>
            /\ ctx[i] # NoData
            /\ \A o \in outbound :
                   (o.ctx = i /\ o.call = "AddContextData") =>
                       (o.err = ErrNil /\ o.req = o.before)

\* A rule list that is not empty resolved to nothing, and AddContextData
\* was called on a request built from the handler's context.
C6_Witness ==
    \E i \in Calls :
        /\ values # <<>>
        /\ \A k \in RuleIndexes : ResolvedValue(i, k) = ""
        /\ \E o \in outbound : o.ctx = i /\ o.call = "AddContextData"

-----------------------------------------------------------------------------
(* C7 *)

\* C7: once Handler has resolved a rule, the rule's MissingFunc has been
\* invoked if and only if it is not nil and the inbound request has no value
\* or the empty value at the rule's inbound location and name.
C7_MissingFuncIff ==
    \A i \in Calls : \A k \in RuleIndexes :
        /\ Resolved(i, k) =>
             (missingCalls[i][k] # <<>>
                <=> /\ values[k].MissingFunc # "nil"
                    /\ FieldValue(inbound[i], values[k].InboundLocation,
                                  values[k].InboundName) = "")
        /\ ~Resolved(i, k) => missingCalls[i][k] = <<>>

\* A MissingFunc was invoked for a field that is present with the empty
\* value, and another was not invoked for a field that has a value.
C7_Witness ==
    \E i \in Calls : \E k, m \in RuleIndexes :
        /\ Resolved(i, k) /\ Resolved(i, m)
        /\ FieldValues(inbound[i], values[k].InboundLocation, values[k].InboundName) = <<"">>
        /\ missingCalls[i][k] # <<>>
        /\ values[m].MissingFunc # "nil"
        /\ FieldValue(inbound[i], values[m].InboundLocation, values[m].InboundName) # ""
        /\ missingCalls[i][m] = <<>>

-----------------------------------------------------------------------------
(* C8 *)

\* The rules among the first k that resolve to a non-empty value.
NonEmptyRules(i, k) == {m \in 1..k : ResolvedValue(i, m) # ""}

\* C8: a rule whose resolved value is empty produces no triple and no error:
\* the carrier holds one triple for each rule that resolved to a non-empty
\* value and none with the empty value, and an outbound request built from
\* the context gets, under a rule's outbound location and name, as many
\* values as non-empty rules target it, none of them empty.
C8_EmptySkipped ==
    \A i \in Calls :
        /\ Len(ctxValues[i]) = Cardinality(NonEmptyRules(i, idx[i] - 1))
        /\ \A t \in 1..Len(ctxValues[i]) : ctxValues[i][t].value # ""
        /\ Built(i) # {} =>
             LET nonEmpty == NonEmptyRules(i, Len(values))
             IN \A k \in RuleIndexes :
                  LET l == values[k].OutboundLocation
                      n == values[k].OutboundName
                      count == Cardinality({m \in nonEmpty :
                                   values[m].OutboundLocation = l /\ values[m].OutboundName = n})
                  IN \A o \in Built(i) :
                       LET out == Written(o, l, n)
                       IN /\ Len(out) = count
                          /\ \A w \in 1..Len(out) : out[w] # ""

\* Of two rules the first resolved to the empty value returned by its
\* MissingFunc and the second to a value, and an outbound request was built
\* that has nothing under the first rule's outbound name.
C8_Witness ==
    \E i \in Calls :
        /\ Len(values) = 2
        /\ missingCalls[i][1] = <<"">>
        /\ ResolvedValue(i, 2) # ""
        /\ \E o \in Built(i) :
             /\ FieldValues(o.req, values[1].OutboundLocation, values[1].OutboundName) = <<>>
             /\ Written(o, values[2].OutboundLocation, values[2].OutboundName) # <<>>

-----------------------------------------------------------------------------
(* C9 *)

RECURSIVE ExpectedTriples(_, _)
\* The triples of the first k rules of call i, in rule order.
ExpectedTriples(i, k) ==
    IF k = 0 THEN <<>>
    ELSE LET rest == ExpectedTriples(i, k - 1)
         IN IF ResolvedValue(i, k) # ""
            THEN Append(rest, ctxValue(values[k].OutboundLocation,
                                       values[k].OutboundName, ResolvedValue(i, k)))
            ELSE rest

RECURSIVE ValuesFor(_, _, _)
\* The values of the triples ts that target (l, n), in order.
ValuesFor(ts, l, n) ==
    IF ts = <<>> THEN <<>>
    ELSE IF Head(ts).location = l /\ Head(ts).name = n
         THEN <<Head(ts).value>> \o ValuesFor(Tail(ts), l, n)
         ELSE ValuesFor(Tail(ts), l, n)

\* C9: the triples Handler stores are those of the rules, in rule order, at
\* most one per rule, and AddContextData writes them in that order: under
\* each location and name an outbound request gets the values of all the
\* rules that target it, in rule order, none replacing another.
C9_RuleOrder ==
    \A i \in Calls :
        /\ ctxValues[i] = ExpectedTriples(i, idx[i] - 1)
        /\ Len(ctxValues[i]) <= Len(values)
        /\ pc[i] \in {"serving", "done"} =>
             LET expected == ExpectedTriples(i, Len(values))
             IN /\ ctx[i] = ctxData(expected)
                /\ \A l \in Locations : \A n \in Names :
                     LET vs == ValuesFor(expected, l, n)
                     IN \A o \in Built(i) : Written(o, l, n) = vs

\* Two rules that target the same header resolved to different values, and
\* an outbound request has both, the first rule's value first.
C9_Witness ==
    \E i \in Calls :
        /\ Len(values) = 2
        /\ values[1].OutboundLocation = LocationHeader
        /\ values[2].OutboundLocation = LocationHeader
        /\ values[1].OutboundName = values[2].OutboundName
        /\ ResolvedValue(i, 1) # "" /\ ResolvedValue(i, 2) # ""
        /\ ResolvedValue(i, 1) # ResolvedValue(i, 2)
        /\ \E o \in Built(i) :
             Written(o, LocationHeader, values[1].OutboundName)
                 = <<ResolvedValue(i, 1), ResolvedValue(i, 2)>>

-----------------------------------------------------------------------------
(* C10 *)

\* C10: AddContextData never removes or overwrites a field the outbound
\* request already had: the header values, the cookies and the values of
\* each query parameter present before the call are there after it, with the
\* same values and before anything the call added, also when a triple
\* targets a name that exists and when the query string is re-encoded.
C10_KeepsFields ==
    \A o \in outbound :
        (o.call = "AddContextData" /\ o.req # NilRequest) =>
            /\ \A n \in Names : IsPrefix(o.before.Header[n], o.req.Header[n])
            /\ IsPrefix(o.before.Cookies, o.req.Cookies)
            /\ o.before.URL = NilURL => o.req.URL = NilURL
            /\ o.before.URL # NilURL =>
                 /\ o.req.URL # NilURL
                 /\ \A n \in Names :
                      IsPrefix(Query(o.before.URL)[n], Query(o.req.URL)[n])

\* AddContextData wrote a query parameter under a name the request already
\* had, re-encoding a query string whose keys were not in sorted order.
C10_Witness ==
    \E o \in outbound :
        /\ o.call = "AddContextData"
        /\ o.err = ErrNil
        /\ o.before.URL # NilURL
        /\ o.before.URL.RawQuery = <<Pair("b", "p"), Pair("a", "p")>>
        /\ Len(SelectValues(o.req.URL.RawQuery, "a")) = 2
        /\ o.req.URL.RawQuery # o.before.URL.RawQuery \o <<o.req.URL.RawQuery[Len(o.req.URL.RawQuery)]>>

-----------------------------------------------------------------------------
(* C11 *)

\* ServeHTTP call i is in the state the middleware promises the wrapped
\* handler: not started while the loop runs; once started, started exactly
\* once, every rule resolved, the carrier attached with the resolved triples.
ServedInOrder(i) ==
    /\ served[i] <= 1
    /\ pc[i] = "range" => (served[i] = 0 /\ ctx[i] = NoData)
    /\ pc[i] \in {"serving", "done"} =>
         /\ served[i] = 1
         /\ idx[i] > Len(values)
         /\ ctx[i] = ctxData(ctxValues[i])

\* C11: for every inbound request Handler invokes the wrapped handler
\* exactly once (a ServeHTTP call that has returned has invoked it once), and
\* only after all rules are resolved and the carrier is attached: the wrapped
\* handler never runs with a context that lacks the carrier, and once it has
\* started no MissingFunc runs and no rule is resolved any more.
C11_ServedOnceAfterResolve ==
    [][\A i \in Calls :
          /\ ServedInOrder(i)
          /\ ServedInOrder(i)'
          /\ served[i] >= 1 =>
               /\ missingCalls'[i] = missingCalls[i]
               /\ ctxValues'[i] = ctxValues[i]
               /\ served'[i] = served[i]]_vars

\* A ServeHTTP call has returned after a MissingFunc ran and the wrapped
\* handler built an outbound request.
C11_Witness ==
    \E i \in Calls :
        /\ pc[i] = "done"
        /\ served[i] = 1
        /\ \E k \in RuleIndexes : missingCalls[i][k] # <<>>
        /\ Built(i) # {}

-----------------------------------------------------------------------------
(* C12 *)

\* The non-empty values the rules of ServeHTTP call i that target (l, n)
\* resolved to, from the call's own inbound request and its own MissingFunc
\* results.
OwnValues(i, l, n) ==
    {ResolvedValue(i, k) : k \in {m \in NonEmptyRules(i, Len(values)) :
        values[m].OutboundLocation = l /\ values[m].OutboundName = n}}

\* C12: concurrent inbound requests handled by the same Handler are
\* isolated: under every interleaving, each value an outbound request built
\* from the context of inbound request A got is a value resolved for A (a
\* field of A or a result of a MissingFunc run for A) by a rule that targets
\* that location and name, never a value resolved only for another request.
C12_Isolated ==
    \A i \in Calls : \A o \in Built(i) :
        \A l \in Locations : \A n \in Names :
            LET out == Written(o, l, n)
            IN \A w \in 1..Len(out) : out[w] \in OwnValues(i, l, n)

\* Two concurrent ServeHTTP calls resolved the same rule to different
\* values, and each built an outbound request that carries its own.
C12_Witness ==
    /\ Calls = {"r1", "r2"}
    /\ \E k \in RuleIndexes :
        LET l == values[k].OutboundLocation
            n == values[k].OutboundName
        IN /\ ResolvedValue("r1", k) # ""
           /\ ResolvedValue("r2", k) # ""
           /\ ResolvedValue("r1", k) # ResolvedValue("r2", k)
           /\ \E o \in Built("r1") : Written(o, l, n) # <<>>
           /\ \E o \in Built("r2") : Written(o, l, n) # <<>>

-----------------------------------------------------------------------------
(* C13 *)

\* The value rule k of call i resolves to on its own: from the inbound
\* request as it was received and from what the rule's own MissingFunc
\* returned.
IndependentValue(i, k) ==
    LET val == FieldValue(received[i], values[k].InboundLocation, values[k].InboundName)
    IN IF val # "" THEN val
       ELSE IF missingCalls[i][k] # <<>> THEN missingCalls[i][k][1]
       ELSE ""

RECURSIVE IndependentTriples(_, _)
\* The triples the first k rules of call i produce when each resolves on its own.
IndependentTriples(i, k) ==
    IF k = 0 THEN <<>>
    ELSE LET rest == IndependentTriples(i, k - 1)
         IN IF IndependentValue(i, k) # ""
            THEN Append(rest, ctxValue(values[k].OutboundLocation,
                                       values[k].OutboundName, IndependentValue(i, k)))
            ELSE rest

\* C13: each rule resolves independently of the others: what a MissingFunc
\* is given is a read-only snapshot, so it cannot influence what other rules
\* resolve, and the triple produced for a rule is the one the rule produces
\* on its own from the inbound request as received, whatever rules and
\* MissingFuncs precede it in the list.
C13_RulesIndependent ==
    \A i \in Calls : ctxValues[i] = IndependentTriples(i, idx[i] - 1)

-----------------------------------------------------------------------------
(* C14 *)

\* The positions of the triples of ts that are query parameters.
QueryPositions(ts) == {t \in 1..Len(ts) : ts[t].location = LocationQueryParam}

\* The first of them.
FirstQuery(ts) == CHOOSE t \in QueryPositions(ts) : \A u \in QueryPositions(ts) : t <= u

\* C14: when AddContextData reaches a triple whose location is
\* LocationQueryParam on a request that has no URL, it returns an error that
\* is not ErrMissingContext and stops there: the triples before it in the
\* carrier have been written to the request, that triple and the later ones
\* have not, and the request still has no URL.
C14_StopsAtQueryWithoutURL ==
    \A i \in Calls : \A o \in outbound :
        (/\ o.call = "AddContextData" /\ o.ctx = i
         /\ o.before.URL = NilURL
         /\ QueryPositions(ctx[i].values) # {}) =>
            LET written == SubSeq(ctx[i].values, 1, FirstQuery(ctx[i].values) - 1)
            IN /\ o.err # ErrNil
               /\ o.err # ErrMissingContext
               /\ o.req.URL = NilURL
               /\ \A l \in {LocationHeader, LocationCookie} : \A n \in Names :
                    Written(o, l, n) = ValuesFor(written, l, n)

\* AddContextData failed on a request without URL after it had written the
\* first triple, a header.
C14_Witness ==
    \E i \in Calls : \E o \in outbound :
        /\ o.call = "AddContextData" /\ o.ctx = i
        /\ o.before.URL = NilURL
        /\ Len(ctx[i].values) = 2
        /\ ctx[i].values[1].location = LocationHeader
        /\ ctx[i].values[2].location = LocationQueryParam
        /\ o.err = ErrNoURL
        /\ Written(o, LocationHeader, ctx[i].values[1].name) = <<ctx[i].values[1].value>>

====
